---- MODULE Spec2Model ----
(***************************************************************************)
(* chroma_code: main (src/src/main.rs) and the parser                      *)
(* (src/src/parser.rs): parse_header and extract_highlighted_pieces.       *)
(*                                                                         *)
(* Strings are sequences of one-character strings, except where a keyword  *)
(* of the header line is one token (see Tokens).  An Option<T> is a        *)
(* sequence of length at most one: << >> is None, <<v>> is Some(v).        *)
(***************************************************************************)
EXTENDS Naturals, Sequences, FiniteSets

VARIABLES
    pc,               \* where main stands
    conf,             \* CliArgs
    content,          \* the input file as read, its lines
    cmd_output,       \* the Option of what Command::output() gave
    pieces,           \* colored_text_pieces / highlighted_text_pieces
    visited,          \* history: the text node each piece was pushed for
    generated_latex,  \* the Option of the formatter's text
    out_file,         \* the Option of what main wrote to the output file
    exit_code         \* the Option of the code main exited with

vars == <<pc, conf, content, cmd_output, pieces, visited, generated_latex,
          out_file, exit_code>>

(***************************************************************************)
(* Bounds of the model.                                                    *)
(***************************************************************************)
\* nodes of a parsed document below its root
MaxNodes == 4
\* nodes of a document in the specification of the whole of main
MainMaxNodes == 2
\* tokens of the input file's first line
MaxLineLen == 5

None == << >>
Some(v) == <<v>>

(***************************************************************************)
(* Strings.                                                                *)
(***************************************************************************)
\* str::contains: pat occurs in s as a substring
contains(s, pat) ==
    \E i \in 1..(Len(s) + 1) :
        /\ i + Len(pat) - 1 <= Len(s)
        /\ \A k \in 1..Len(pat) : s[i + k - 1] = pat[k]

\* str::starts_with
starts_with(s, pat) ==
    /\ Len(pat) <= Len(s)
    /\ \A k \in 1..Len(pat) : s[k] = pat[k]

HexDigits ==
    {"0", "1", "2", "3", "4", "5", "6", "7", "8", "9",
     "a", "b", "c", "d", "e", "f", "A", "B", "C", "D", "E", "F"}

\* char::to_uppercase on the characters the model's strings hold
upper_char(c) ==
    CASE c = "a" -> "A" [] c = "b" -> "B" [] c = "c" -> "C" [] c = "d" -> "D"
      [] c = "e" -> "E" [] c = "f" -> "F" [] c = "g" -> "G" [] c = "r" -> "R"
      [] OTHER -> c

to_uppercase(s) == [k \in 1..Len(s) |-> upper_char(s[k])]

\* str::replace(ch, ""): every occurrence of ch removed
RECURSIVE remove_char(_, _)
remove_char(s, ch) ==
    IF s = << >> THEN << >>
    ELSE IF Head(s) = ch THEN remove_char(Tail(s), ch)
         ELSE <<Head(s)>> \o remove_char(Tail(s), ch)

\* the positions where #[0-9a-fA-F]{6} matches in s
hex_match_at(s, i) ==
    /\ i + 6 <= Len(s)
    /\ s[i] = "#"
    /\ \A k \in 1..6 : s[i + k] \in HexDigits

\* Regex::find: the leftmost match, as Option<&str>
hex_color_find(s) ==
    LET starts == {i \in 1..Len(s) : hex_match_at(s, i)}
    IN  IF starts = {} THEN None
        ELSE LET i == CHOOSE j \in starts : \A k \in starts : j <= k
             IN  Some(SubSeq(s, i, i + 6))

(***************************************************************************)
(* The parsed document (scraper's Html): nodes 1..Len(doc) in document     *)
(* order below the root, node 0.  Kinds: "line" is an element the selector *)
(* td.line matches, "elem" any other element, "frag" the fragment node     *)
(* that holds a template's contents, "text" a text node.                   *)
(***************************************************************************)
\* style='color: #ff00aa;font-weight: bold'
StyleColorBold ==
    <<"c", "o", "l", "o", "r", ":", " ", "#", "f", "f", "0", "0", "a", "a", ";",
      "f", "o", "n", "t", "-", "w", "e", "i", "g", "h", "t", ":", " ",
      "b", "o", "l", "d">>

\* style='color: #12345g;font-style: italic;text-decoration: underline':
\* the '#' starts no match of the color's pattern
StyleItalicUnderline ==
    <<"c", "o", "l", "o", "r", ":", " ", "#", "1", "2", "3", "4", "5", "g", ";",
      "f", "o", "n", "t", "-", "s", "t", "y", "l", "e", ":", " ",
      "i", "t", "a", "l", "i", "c", ";",
      "t", "e", "x", "t", "-", "d", "e", "c", "o", "r", "a", "t", "i", "o", "n", ":", " ",
      "u", "n", "d", "e", "r", "l", "i", "n", "e">>

\* style='color: #12345;background: #0A0b0c7': the first '#' starts no match,
\* the second one starts a match that ends before the 7
StyleSecondMatch ==
    <<"c", "o", "l", "o", "r", ":", " ", "#", "1", "2", "3", "4", "5", ";",
      "b", "a", "c", "k", "g", "r", "o", "u", "n", "d", ":", " ",
      "#", "0", "A", "0", "b", "0", "c", "7">>

\* a node holds its style attribute by name; this is the attribute's text
StyleNames == {"color_bold", "italic_underline", "second_match"}

StyleText(name) ==
    CASE name = "color_bold" -> StyleColorBold
      [] name = "italic_underline" -> StyleItalicUnderline
      [] name = "second_match" -> StyleSecondMatch

Texts == {"a", "b"}

Black == <<"0", "0", "0", "0", "0", "0">>

\* the text unwrap_or puts in the place of a missing style attribute
DefaultStyleText ==
    <<"c", "o", "l", "o", "r", ":", " ", "#", "0", "0", "0", "0", "0", "0">>

Bold == <<"b", "o", "l", "d">>
Underline == <<"u", "n", "d", "e", "r", "l", "i", "n", "e">>
Italic == <<"i", "t", "a", "l", "i", "c">>

\* the nodes a document can hold below parent p; a line container is the
\* highlighter's <td class=line>, which carries no style attribute
NodesUnder(p) ==
    {[kind |-> "line", parent |-> p, style |-> None, text |-> ""],
     [kind |-> "frag", parent |-> p, style |-> None, text |-> ""]}
    \cup {[kind |-> "elem", parent |-> p, style |-> st, text |-> ""] :
            st \in {None} \cup {Some(s) : s \in StyleNames}}
    \cup {[kind |-> "text", parent |-> p, style |-> None, text |-> t] : t \in Texts}

\* node a is a proper ancestor of node j
RECURSIVE is_ancestor(_, _, _)
is_ancestor(doc, a, j) ==
    /\ j # 0
    /\ \/ doc[j].parent = a
       \/ is_ancestor(doc, a, doc[j].parent)

\* where the next node in document order can hang: below the last node or
\* below one of its ancestors, and never below a text node
OpenParents(doc) ==
    IF doc = << >> THEN {0}
    ELSE {p \in 0..Len(doc) :
            /\ p = 0 \/ doc[p].kind # "text"
            /\ p = Len(doc) \/ is_ancestor(doc, p, Len(doc))}

\* what the tree builder can append to doc: a fragment only as the first child
\* of an element other than a line (a template's contents), and no text node
\* right after a text node, since the builder merges the two
CanAppend(doc, nd) ==
    /\ nd.parent \in OpenParents(doc)
    /\ nd.kind = "frag" =>
          /\ nd.parent = Len(doc)
          /\ nd.parent # 0
          /\ doc[nd.parent].kind = "elem"
    /\ nd.kind = "text" => (doc = << >> \/ doc[Len(doc)].kind # "text")

RECURSIVE DocsOfLen(_)
DocsOfLen(n) ==
    IF n = 0 THEN {<< >>}
    ELSE LET nodes == UNION {NodesUnder(p) : p \in 0..(n - 1)}
             pairs == {x \in DocsOfLen(n - 1) \X nodes : CanAppend(x[1], x[2])}
         IN  {Append(x[1], x[2]) : x \in pairs}

IsElement(doc, p) == p = 0 \/ doc[p].kind \in {"line", "elem"}

\* select_lines, had it also matched the elements that carry a style attribute
RECURSIVE select_styled_from(_, _)
select_styled_from(doc, j) ==
    IF j > Len(doc) THEN << >>
    ELSE (IF doc[j].kind = "line" \/ (doc[j].kind = "elem" /\ doc[j].style # None)
          THEN <<j>> ELSE << >>) \o select_styled_from(doc, j + 1)

select_lines_or_spans(doc) == select_styled_from(doc, 1)

\* the elements td.line matches, from node j on
RECURSIVE select_from(_, _)
select_from(doc, j) ==
    IF j > Len(doc) THEN << >>
    ELSE (IF doc[j].kind = "line" THEN <<j>> ELSE << >>) \o select_from(doc, j + 1)

\* document.select(td.line): the matching elements in document order
select_lines(doc) == select_from(doc, 1)

\* lines.enumerate().filter_map(..): the first match dropped under skip_first_line
lines_iter(lines, skip_first_line) ==
    LET keep == {i \in 1..Len(lines) : ~(skip_first_line /\ i = 1)}
        RECURSIVE from(_)
        from(i) == IF i > Len(lines) THEN << >>
                   ELSE (IF i \in keep THEN <<lines[i]>> ELSE << >>) \o from(i + 1)
    IN  from(1)

\* line.descendants() restricted to the text nodes, in document order
RECURSIVE text_descendants_from(_, _, _)
text_descendants_from(doc, line, j) ==
    IF j > Len(doc) THEN << >>
    ELSE (IF is_ancestor(doc, line, j) /\ doc[j].kind = "text" THEN <<j>> ELSE << >>)
         \o text_descendants_from(doc, line, j + 1)

text_descendants(doc, line) == text_descendants_from(doc, line, line + 1)

\* parsed_color with both arms of the match taken, and the upper case forgotten
parsed_color_no_upper(capture) ==
    IF capture = None THEN Black
    ELSE remove_char(capture[1], "#")

\* the match on the regex's capture.  The first arm's pattern, `none`, is an
\* identifier: it binds whatever the capture is, so the second arm is never taken
parsed_color(capture) ==
    IF TRUE THEN Black
    ELSE to_uppercase(remove_char(capture[1], "#"))

\* text_piece, had it walked up to the nearest ancestor with a style attribute
RECURSIVE styled_ancestor(_, _)
styled_ancestor(doc, p) ==
    IF p = 0 THEN 0
    ELSE IF doc[p].kind \in {"line", "elem"} /\ doc[p].style # None THEN p
         ELSE styled_ancestor(doc, doc[p].parent)

text_piece_walk(doc, j) ==
    LET a == styled_ancestor(doc, doc[j].parent)
        style_text == IF a = 0 THEN DefaultStyleText ELSE StyleText(doc[a].style[1])
    IN  [text |-> doc[j].text, hex_color |-> parsed_color(hex_color_find(style_text)),
         bold |-> contains(style_text, Bold),
         underline |-> contains(style_text, Underline),
         italic |-> contains(style_text, Italic)]

\* the piece pushed for text node j.  Every node below a line container has
\* a parent, so child.parent() is Some and the first `continue` is never taken
text_piece(doc, j) ==
    LET parent == doc[j].parent IN
    IF ~IsElement(doc, parent)
    THEN [text |-> doc[j].text, hex_color |-> Black,
          bold |-> FALSE, underline |-> FALSE, italic |-> FALSE]
    ELSE LET attr == IF parent = 0 THEN None ELSE doc[parent].style
             style_text == IF attr = None THEN DefaultStyleText ELSE StyleText(attr[1])
             capture == hex_color_find(style_text)
         IN  [text |-> doc[j].text, hex_color |-> parsed_color(capture),
              bold |-> contains(style_text, Bold),
              underline |-> contains(style_text, Underline),
              italic |-> contains(style_text, Italic)]

\* the text nodes the two loops reach, in the order they reach them
RECURSIVE visit_order(_, _)
visit_order(doc, lines) ==
    IF lines = << >> THEN << >>
    ELSE text_descendants(doc, Head(lines)) \o visit_order(doc, Tail(lines))

\* the body of extract_highlighted_pieces after decoding
extract_nodes(doc, cf) == visit_order(doc, lines_iter(select_lines(doc), cf.skip_first_line))

extract_pieces(doc, cf) ==
    LET order == extract_nodes(doc, cf)
    IN  [k \in 1..Len(order) |-> text_piece(doc, order[k])]

(***************************************************************************)
(* The header comment on the first line of the input file.  The line is a  *)
(* sequence of tokens: the keywords chroma_code:, caption: and label: are  *)
(* one token each, " " is a white-space character, "x" any other one.      *)
(***************************************************************************)
Tokens == {"#", "/", " ", "chroma_code:", "caption:", "label:", "x"}

\* str::split(","): the pieces between the commas (one empty piece for "")
RECURSIVE split_from(_, _, _)
split_from(s, i, cur) ==
    IF i > Len(s) THEN <<cur>>
    ELSE IF s[i] = "," THEN <<cur>> \o split_from(s, i + 1, << >>)
         ELSE split_from(s, i + 1, Append(cur, s[i]))

split(s) == split_from(s, 1, << >>)

\* str::trim: white space removed at both ends
RECURSIVE trim_start(_)
trim_start(s) ==
    IF s # << >> /\ Head(s) = " " THEN trim_start(Tail(s)) ELSE s

RECURSIVE trim_end(_)
trim_end(s) ==
    IF s # << >> /\ s[Len(s)] = " " THEN trim_end(SubSeq(s, 1, Len(s) - 1)) ELSE s

trim(s) == trim_end(trim_start(s))

\* \s* (greedy) from position i: the first position it does not take
RECURSIVE skip_spaces(_, _)
skip_spaces(s, i) ==
    IF i <= Len(s) /\ s[i] = " " THEN skip_spaces(s, i + 1) ELSE i

\* the header regex tried at position i of s, in the order a backtracking
\* matcher tries: None, or Some of the two named groups
match_at(s, i) ==
    IF s[i] # "chroma_code:" THEN None
    ELSE LET a == skip_spaces(s, i + 1) IN
         IF a <= Len(s) /\ s[a] = "caption:"
         THEN LET b == skip_spaces(s, a + 1)
                  \* what follows the caption matches \s*(?:label:\s*(.*?))?$
                  RestOk(e) == LET r == skip_spaces(s, e + 1)
                               IN  r > Len(s) \/ s[r] = "label:"
                  \* .*? takes the shortest caption that lets the rest match
                  e == CHOOSE x \in (b - 1)..Len(s) :
                          /\ RestOk(x)
                          /\ \A y \in (b - 1)..Len(s) : RestOk(y) => x <= y
                  r == skip_spaces(s, e + 1)
              IN  Some([caption |-> Some(SubSeq(s, b, e)),
                        label |-> IF r > Len(s) THEN None
                                  ELSE Some(SubSeq(s, skip_spaces(s, r + 1), Len(s)))])
         ELSE IF a <= Len(s) /\ s[a] = "label:"
         THEN Some([caption |-> None,
                    label |-> Some(SubSeq(s, skip_spaces(s, a + 1), Len(s)))])
         ELSE IF a > Len(s)
         THEN Some([caption |-> None, label |-> None])
         ELSE None

\* Regex::captures: the match at the leftmost position that has one
header_captures(s) ==
    LET at == {i \in 1..Len(s) : match_at(s, i) # None}
    IN  IF at = {} THEN None
        ELSE match_at(s, CHOOSE i \in at : \A k \in at : i <= k)

\* Option::map(|m| m.as_str().trim().to_string())
map_trim(opt) == IF opt = None THEN None ELSE Some(trim(opt[1]))

\* the loop over the comment types, from the k-th on
RECURSIVE header_from(_, _, _)
header_from(first_line, comment_types, k) ==
    IF k > Len(comment_types) THEN None
    ELSE IF starts_with(first_line, comment_types[k])
    THEN LET trimmed_line == trim(SubSeq(first_line, Len(comment_types[k]) + 1,
                                         Len(first_line)))
             captures == header_captures(trimmed_line)
         IN  IF captures # None
                /\ (captures[1].caption # None \/ captures[1].label # None)
             THEN Some([caption |-> map_trim(captures[1].caption),
                        label |-> map_trim(captures[1].label)])
             ELSE header_from(first_line, comment_types, k + 1)
    ELSE header_from(first_line, comment_types, k + 1)

\* content is the file's lines; only lines().next() is read
parse_header(cont, comment_types) ==
    IF cont = << >> THEN None
    ELSE header_from(cont[1], comment_types, 1)

(***************************************************************************)
(* main, from the point where the input and output files are settled.      *)
(***************************************************************************)
Red == <<"F", "F", "0", "0", "0", "0">>
\* --default-color is any string: clap checks nothing
NotAColor == <<"r", "e", "d">>
DefaultColors == {Black, Red, NotAColor}

\* the default of --header-comment-types, "#,//", and the empty string
HeaderCommentTypes == {<<"#", ",", "/", "/">>, << >>}

CliCaption == <<"C">>
CliLabel == <<"L">>

Conf(inp, out, types, color, skip) ==
    [input |-> inp, output |-> out, caption |-> CliCaption, label |-> CliLabel,
     header_comment_types |-> types, default_color |-> color,
     skip_first_line |-> skip]

RECURSIVE LinesOfLen(_)
LinesOfLen(n) ==
    IF n = 0 THEN {<< >>}
    ELSE {Append(l, t) : l \in LinesOfLen(n - 1), t \in Tokens}

\* the input file: no line at all, or a first line (the later lines are not read)
ContentsOfLen(n) == {<< >>} \cup {<<l>> : l \in LinesOfLen(n)}

MainContents ==
    {<< >>,
     <<<<"x", "x">>>>,
     <<<<"#", " ", "chroma_code:", "caption:", "x">>>>,
     <<<<"/", "/", "chroma_code:", "label:", "x">>>>}

\* what the highlighter wrote to its stdout: bytes that are no UTF-8 (doc is
\* then without meaning), or the document they parse to
Stdouts(docs) ==
    {[utf8 |-> FALSE, doc |-> << >>]} \cup {[utf8 |-> TRUE, doc |-> d] : d \in docs}

\* Command::output(): the process could not be run, or its status, stderr and stdout
CmdOutputs(docs) ==
    {[res |-> "Err", success |-> FALSE, stderr |-> "empty",
      stdout |-> [utf8 |-> TRUE, doc |-> << >>]]}
    \cup {[res |-> "Ok", success |-> ok, stderr |-> e, stdout |-> o] :
            ok \in BOOLEAN, e \in {"empty", "no_language", "other"}, o \in Stdouts(docs)}

Exit(code) ==
    /\ pc' = "exit"
    /\ exit_code' = Some(code)

\* main.rs 170-177
CheckFiles ==
    /\ pc = "files"
    /\ \/ /\ conf.input = None \/ conf.output = None
          /\ Exit("USAGE")
       \/ /\ conf.input # None /\ conf.output # None
          /\ pc' = "read"
          /\ UNCHANGED exit_code
    /\ UNCHANGED <<conf, content, cmd_output, pieces, visited, generated_latex, out_file>>

\* main.rs 179-182
ReadInput(contents) ==
    /\ pc = "read"
    /\ \/ /\ Exit("NOINPUT")
          /\ UNCHANGED content
       \/ /\ \E c \in contents : content' = c
          /\ pc' = "header"
          /\ UNCHANGED exit_code
    /\ UNCHANGED <<conf, cmd_output, pieces, visited, generated_latex, out_file>>

\* apply_header with unwrap_or_default in the place of unwrap_or(conf. ..)
apply_header_overwrite(cf, header_info) ==
    [cf EXCEPT !.caption = IF header_info.caption # None
                           THEN header_info.caption[1] ELSE << >>,
               !.label = IF header_info.label # None
                         THEN header_info.label[1] ELSE << >>,
               !.skip_first_line = TRUE]

\* header_info.caption.unwrap_or(conf.caption), and the same for the label
apply_header(cf, header_info) ==
    [cf EXCEPT !.caption = IF header_info.caption # None
                           THEN header_info.caption[1] ELSE @,
               !.label = IF header_info.label # None
                         THEN header_info.label[1] ELSE @,
               !.skip_first_line = TRUE]

\* main.rs 184-190
Header ==
    /\ pc = "header"
    /\ LET found == parse_header(content, split(conf.header_comment_types))
       IN  conf' = IF found # None THEN apply_header(conf, found[1]) ELSE conf
    /\ pc' = "run"
    /\ UNCHANGED <<content, cmd_output, pieces, visited, generated_latex, out_file,
                   exit_code>>

\* main.rs 192-194
RunHighlighter(docs) ==
    /\ pc = "run"
    /\ \E o \in CmdOutputs(docs) : cmd_output' = Some(o)
    /\ pc' = "status"
    /\ UNCHANGED <<conf, content, pieces, visited, generated_latex, out_file, exit_code>>

\* main.rs 198-239 and 255-263
CheckStatus ==
    /\ pc = "status"
    /\ LET out == cmd_output[1] IN
       \/ /\ out.res = "Err"
          /\ Exit("UNAVAILABLE")
       \/ /\ out.res = "Ok" /\ ~out.success
          /\ Exit("NOINPUT")
       \/ /\ out.res = "Ok" /\ out.success /\ out.stderr = "no_language"
          /\ Exit("UNAVAILABLE")
       \/ /\ out.res = "Ok" /\ out.success /\ out.stderr # "no_language"
          /\ pc' = "extract"
          /\ UNCHANGED exit_code
    /\ UNCHANGED <<conf, content, cmd_output, pieces, visited, generated_latex, out_file>>

\* Extract with String::from_utf8_lossy: output that is no UTF-8 is decoded
\* all the same, to a text without any line container
Extract_lossy ==
    /\ pc = "extract"
    /\ LET stdout == cmd_output[1].stdout IN
       /\ pieces' = (IF stdout.utf8 THEN extract_pieces(stdout.doc, conf) ELSE << >>)
       /\ visited' = (IF stdout.utf8 THEN extract_nodes(stdout.doc, conf) ELSE << >>)
    /\ pc' = "emit"
    /\ UNCHANGED <<conf, content, cmd_output, generated_latex, out_file, exit_code>>

\* Extract with a document without line containers taken for a data error
Extract_strict ==
    /\ pc = "extract"
    /\ LET stdout == cmd_output[1].stdout IN
       \/ /\ ~stdout.utf8 \/ select_lines(stdout.doc) = << >>
          /\ Exit("DATAERR")
          /\ UNCHANGED <<pieces, visited>>
       \/ /\ stdout.utf8 /\ select_lines(stdout.doc) # << >>
          /\ pieces' = extract_pieces(stdout.doc, conf)
          /\ visited' = extract_nodes(stdout.doc, conf)
          /\ pc' = "emit"
          /\ UNCHANGED exit_code
    /\ UNCHANGED <<conf, content, cmd_output, generated_latex, out_file>>

\* main.rs 240-241: extract_highlighted_pieces, parser.rs 40-110
Extract ==
    /\ pc = "extract"
    /\ LET stdout == cmd_output[1].stdout IN
       \/ /\ ~stdout.utf8
          /\ Exit("DATAERR")
          /\ UNCHANGED <<pieces, visited>>
       \/ /\ stdout.utf8
          /\ pieces' = extract_pieces(stdout.doc, conf)
          /\ visited' = extract_nodes(stdout.doc, conf)
          /\ pc' = "emit"
          /\ UNCHANGED exit_code
    /\ UNCHANGED <<conf, content, cmd_output, generated_latex, out_file>>

\* main.rs 242: the formatter's text, kept as what it is made from
Emit ==
    /\ pc = "emit"
    /\ generated_latex' = Some([pieces |-> pieces, caption |-> conf.caption,
                                label |-> conf.label])
    /\ pc' = "write"
    /\ UNCHANGED <<conf, content, cmd_output, pieces, visited, out_file, exit_code>>

\* main.rs 246-253: the file holds the text, or the write failed and left
\* no file or a part of one; main ends either way
Write ==
    /\ pc = "write"
    /\ \/ out_file' = generated_latex
       \/ out_file' \in {None, Some("partial")}
    /\ pc' = "done"
    /\ UNCHANGED <<conf, content, cmd_output, pieces, visited, generated_latex, exit_code>>

InitWith(p, confs, contents, outputs) ==
    /\ pc = p
    /\ conf \in confs
    /\ content \in contents
    /\ cmd_output \in outputs
    /\ pieces = << >>
    /\ visited = << >>
    /\ generated_latex = None
    /\ out_file = None
    /\ exit_code = None

(***************************************************************************)
(* Spec: main as a whole, on small inputs.                                 *)
(***************************************************************************)
MainConfs ==
    {Conf(i, o, t, c, FALSE) :
        i \in {None, Some("in")}, o \in {None, Some("out")},
        t \in {<<"#", ",", "/", "/">>}, c \in {Black, Red}}

Init == InitWith("files", MainConfs, {<< >>}, {None})

ReadInputMain == ReadInput(MainContents)

RunHighlighterMain == \E n \in 0..MainMaxNodes : RunHighlighter(DocsOfLen(n))

Next ==
    \/ CheckFiles
    \/ ReadInputMain
    \/ Header
    \/ RunHighlighterMain
    \/ CheckStatus
    \/ Extract
    \/ Emit
    \/ Write

Spec == Init /\ [][Next]_vars

(***************************************************************************)
(* SpecExtract: extract_highlighted_pieces on every document and option.   *)
(***************************************************************************)
ExtractConfs ==
    {Conf(Some("in"), Some("out"), <<"#", ",", "/", "/">>, c, skip) :
        c \in DefaultColors, skip \in BOOLEAN}

ExtractOutputs(n) ==
    {Some([res |-> "Ok", success |-> TRUE, stderr |-> "empty", stdout |-> o]) :
        o \in Stdouts(DocsOfLen(n))}

InitExtract ==
    \E n \in 0..MaxNodes : InitWith("extract", ExtractConfs, {<< >>}, ExtractOutputs(n))

NextExtract == Extract

SpecExtract == InitExtract /\ [][NextExtract]_vars

(***************************************************************************)
(* SpecHeader: the header step of main on every first line.                *)
(***************************************************************************)
HeaderConfs ==
    {Conf(Some("in"), Some("out"), t, Black, FALSE) : t \in HeaderCommentTypes}

InitHeader == InitWith("read", HeaderConfs, {<< >>}, {None})

ReadInputAny == \E n \in 0..MaxLineLen : ReadInput(ContentsOfLen(n))

NextHeader ==
    \/ ReadInputAny
    \/ Header

SpecHeader == InitHeader /\ [][NextHeader]_vars

(***************************************************************************)
(* What the claims speak of.                                               *)
(***************************************************************************)
\* the document the highlighter wrote, once its output is there and decodes
Doc == cmd_output[1].stdout.doc

Decodes == cmd_output # None /\ cmd_output[1].stdout.utf8

\* extract_highlighted_pieces has returned
Extracted == pc = "emit" /\ Decodes

\* the style attribute's name at node p, None when p carries none
StyleAttr(doc, p) == IF p = 0 THEN None ELSE doc[p].style

\* what each style text says, read off the text by hand: the six digits of its
\* first '#' followed by six hex digits, in upper case, and its keywords
StyleColor(name) ==
    CASE name = "color_bold" -> Some(<<"F", "F", "0", "0", "A", "A">>)
      [] name = "italic_underline" -> None
      [] name = "second_match" -> Some(<<"0", "A", "0", "B", "0", "C">>)

StyleFlags(name) ==
    CASE name = "color_bold" -> [bold |-> TRUE, underline |-> FALSE, italic |-> FALSE]
      [] name = "italic_underline" -> [bold |-> FALSE, underline |-> TRUE, italic |-> TRUE]
      [] name = "second_match" -> [bold |-> FALSE, underline |-> FALSE, italic |-> FALSE]

\* the characters of a color in its canonical form
UpperHexDigits ==
    {"0", "1", "2", "3", "4", "5", "6", "7", "8", "9", "A", "B", "C", "D", "E", "F"}

NoFlags == [bold |-> FALSE, underline |-> FALSE, italic |-> FALSE]

FlagsOf(piece) ==
    [bold |-> piece.bold, underline |-> piece.underline, italic |-> piece.italic]

LineNodes(doc) == {l \in 1..Len(doc) : doc[l].kind = "line"}

UnderLine(doc, j) == \E l \in LineNodes(doc) : is_ancestor(doc, l, j)

\* the text nodes below some line container
LineTexts(doc) == {j \in 1..Len(doc) : doc[j].kind = "text" /\ UnderLine(doc, j)}

\* the members of a set of numbers, in rising order
RECURSIVE Ascending(_)
Ascending(S) ==
    IF S = {} THEN << >>
    ELSE LET m == CHOOSE x \in S : \A y \in S : x <= y
         IN  <<m>> \o Ascending(S \ {m})

\* how often node j was made a piece
Count(j) == Cardinality({k \in 1..Len(visited) : visited[k] = j})

(***************************************************************************)
(* C1: a text node whose parent's style text holds '#' and six hex digits  *)
(* gets those digits (of the first match), in upper case, as its color;    *)
(* with a style text that holds no match it gets the configured default    *)
(* color.                                                                  *)
(***************************************************************************)
C1_ColorFromStyleText ==
    Extracted =>
        \A k \in 1..Len(visited) :
            LET p == Doc[visited[k]].parent
                attr == StyleAttr(Doc, p)
            IN  (IsElement(Doc, p) /\ attr # None) =>
                    pieces[k].hex_color =
                        IF StyleColor(attr[1]) # None THEN StyleColor(attr[1])[1]
                        ELSE conf.default_color

(***************************************************************************)
(* C2: a text node under a line container whose parent has no style        *)
(* attribute, or is no element, yields exactly one run, of the configured  *)
(* default color and with no flag set.                                     *)
(***************************************************************************)
Unstyled(doc, j) ==
    \/ ~IsElement(doc, doc[j].parent)
    \/ StyleAttr(doc, doc[j].parent) = None

C2_DefaultsForUnstyled ==
    Extracted =>
        /\ ~conf.skip_first_line =>
              \A j \in LineTexts(Doc) : Unstyled(Doc, j) => Count(j) = 1
        /\ \A k \in 1..Len(visited) :
              Unstyled(Doc, visited[k]) =>
                  /\ pieces[k].hex_color = conf.default_color
                  /\ FlagsOf(pieces[k]) = NoFlags

(***************************************************************************)
(* C3: without skip_first_line the texts of the runs are the texts of the  *)
(* text nodes below the line containers, in document order, each once,     *)
(* also when a line container lies inside another.                         *)
(***************************************************************************)
C3_Concatenation ==
    (Extracted /\ ~conf.skip_first_line) =>
        LET expected == Ascending(LineTexts(Doc))
        IN  /\ visited = expected
            /\ [k \in 1..Len(pieces) |-> pieces[k].text]
                 = [k \in 1..Len(expected) |-> Doc[expected[k]].text]

(***************************************************************************)
(* C4: with skip_first_line no run comes from a text node of the first     *)
(* line container, and the runs are those the later line containers give   *)
(* without skip_first_line.                                                *)
(***************************************************************************)
C4_SkipFirstLine ==
    (Extracted /\ conf.skip_first_line /\ LineNodes(Doc) # {}) =>
        LET first == CHOOSE l \in LineNodes(Doc) : \A m \in LineNodes(Doc) : l <= m
            unskipped == extract_pieces(Doc, [conf EXCEPT !.skip_first_line = FALSE])
            dropped == Len(unskipped) - Len(pieces)
        IN  /\ \A k \in 1..Len(visited) : ~is_ancestor(Doc, first, visited[k])
            /\ dropped >= 0
            /\ pieces = SubSeq(unskipped, dropped + 1, Len(unskipped))

Skipped(doc, cf) ==
    IF cf.skip_first_line /\ LineNodes(doc) # {}
    THEN {CHOOSE l \in LineNodes(doc) : \A m \in LineNodes(doc) : l <= m}
    ELSE {}

SpanTexts(doc) ==
    {j \in 1..Len(doc) :
        /\ doc[j].kind = "text"
        /\ doc[j].parent # 0
        /\ doc[doc[j].parent].kind = "elem"
        /\ doc[doc[j].parent].style # None}

ConventionB(doc) == LineNodes(doc) = {} /\ SpanTexts(doc) # {}

C8_ColorNormalized ==
    \A k \in 1..Len(pieces) :
        /\ Len(pieces[k].hex_color) = 6
        /\ \A i \in 1..6 : pieces[k].hex_color[i] \in UpperHexDigits

\* a run made from a style text whose color is in lower case, under a default
\* color that is no color
C8_Witness ==
    /\ Extracted
    /\ conf.default_color = NotAColor
    /\ \E k \in 1..Len(visited) :
          StyleAttr(Doc, Doc[visited[k]].parent) = Some("color_bold")

(***************************************************************************)
(* C10, as the spec has it: a text node whose parent has no style          *)
(* attribute and whose grandparent, inside the line container, has one     *)
(* gets the grandparent's style.                                           *)
(***************************************************************************)
\* the parent of j is an element without style, its parent an element with
\* one, below a line container
StyledGrandparent(doc, j) ==
    LET p == doc[j].parent IN
    /\ p # 0 /\ doc[p].kind = "elem" /\ doc[p].style = None
    /\ doc[p].parent # 0
    /\ doc[doc[p].parent].kind = "elem"
    /\ doc[doc[p].parent].style # None
    /\ UnderLine(doc, doc[p].parent)

CommentPrefixes(types) ==
    CASE types = <<"#", ",", "/", "/">> -> <<<<"#">>, <<"/", "/">>>>
      [] types = << >> -> <<<< >>>>

\* s without the white space at its two ends
Strip(s) ==
    LET inked == {i \in 1..Len(s) : s[i] # " "}
    IN  IF inked = {} THEN << >>
        ELSE SubSeq(s, CHOOSE i \in inked : \A m \in inked : i <= m,
                       CHOOSE i \in inked : \A m \in inked : i >= m)

\* t holds chroma_code: at i, and caption: or label: at j follows it with
\* nothing but white space between
HeaderAt(t, i, j) ==
    /\ t[i] = "chroma_code:"
    /\ i < j
    /\ t[j] \in {"caption:", "label:"}
    /\ \A m \in (i + 1)..(j - 1) : t[m] = " "

HasHeader(t) == \E i, j \in 1..Len(t) : HeaderAt(t, i, j)

\* the header t holds: of the first such chroma_code:, the caption up to the
\* first label: after it, and what follows that label:
HeaderOf(t) ==
    LET i == CHOOSE x \in 1..Len(t) :
                /\ \E j \in 1..Len(t) : HeaderAt(t, x, j)
                /\ \A y \in 1..(x - 1) : \A j \in 1..Len(t) : ~HeaderAt(t, y, j)
        j == CHOOSE x \in 1..Len(t) : HeaderAt(t, i, x)
        labels == {m \in (j + 1)..Len(t) : t[m] = "label:"}
        m == CHOOSE x \in labels : \A y \in labels : x <= y
    IN  IF t[j] = "label:"
        THEN [caption |-> None, label |-> Some(Strip(SubSeq(t, j + 1, Len(t))))]
        ELSE IF labels = {}
        THEN [caption |-> Some(Strip(SubSeq(t, j + 1, Len(t)))), label |-> None]
        ELSE [caption |-> Some(Strip(SubSeq(t, j + 1, m - 1))),
              label |-> Some(Strip(SubSeq(t, m + 1, Len(t))))]

\* what follows prefix p on the line, when the line starts with p
AfterPrefix(line, p) == SubSeq(line, Len(p) + 1, Len(line))

ExpectedHeader(cont, prefixes) ==
    LET with == {k \in 1..Len(prefixes) :
                    /\ cont # << >>
                    /\ Len(prefixes[k]) <= Len(cont[1])
                    /\ SubSeq(cont[1], 1, Len(prefixes[k])) = prefixes[k]
                    /\ HasHeader(AfterPrefix(cont[1], prefixes[k]))}
    IN  IF with = {} THEN None
        ELSE Some(HeaderOf(AfterPrefix(cont[1],
                      prefixes[CHOOSE k \in with : \A m \in with : k <= m])))

C9_Effect ==
    LET expected == ExpectedHeader(content, CommentPrefixes(conf.header_comment_types))
    IN  /\ ~conf.skip_first_line
        /\ conf'.skip_first_line = (expected # None)
        /\ conf'.caption = IF expected # None /\ expected[1].caption # None
                           THEN expected[1].caption[1] ELSE conf.caption
        /\ conf'.label = IF expected # None /\ expected[1].label # None
                         THEN expected[1].label[1] ELSE conf.label
        /\ conf' = [conf EXCEPT !.caption = conf'.caption, !.label = conf'.label,
                                !.skip_first_line = conf'.skip_first_line]
        /\ expected = None => conf' = conf

C9_HeaderOverridesCli == [][pc = "header" => C9_Effect]_vars

\* a header that gives a caption and no label was found
C9_Witness ==
    /\ pc = "run"
    /\ conf.skip_first_line
    /\ conf.caption = <<"x">>
    /\ conf.label = CliLabel

====
